---------------------------- MODULE Spec2Model ----------------------------
(***************************************************************************)
(* Model of the Unity warehouse adapter (UnityWarehouseEnv,                *)
(* epymarl/src/envs/unity_wrapper.py) and of its facade (UnityWarehouse,   *)
(* epymarl/src/envs/warehouse_env.py).                                     *)
(*                                                                         *)
(* The simulation behind unity_env is external: what it reports after a    *)
(* reset or a tick (the decision set and the terminal set of the one       *)
(* behaviour) is chosen nondeterministically from bounded sets.  Rewards   *)
(* are integers here (the code sums floats with numpy); Python lists are   *)
(* 1-based sequences, and a Python index i is translated by PyIndex.       *)
(***************************************************************************)
EXTENDS Integers, Sequences, FiniteSets

VARIABLES
    observation_specs,  \* self.spec.observation_specs: the declared widths
    decision_steps,     \* what unity_env.get_steps() returns now: [0]
    terminal_steps,     \* what unity_env.get_steps() returns now: [1]
    n_agents,           \* self.n_agents
    n_actions,          \* self.n_actions
    obs_shape,          \* self.obs_shape
    episode_limit,      \* self.episode_limit
    _episode_count,     \* self._episode_count
    _episode_steps,     \* self._episode_steps
    _total_steps,       \* self._total_steps
    _env_info,          \* UnityWarehouse._env_info (the facade's cache)
    unity_env,          \* self.unity_env: the connection, open or closed
    np_random,          \* numpy's process-wide generator: <<>> or <<seed>>
    registry,           \* how REGISTRY["unity_warehouse"] was called, and its result
    ret,                \* what the last operation returned (or that it raised)
    hist                \* history: the calls made so far, the first env info

vars == << observation_specs, decision_steps, terminal_steps, n_agents,
           n_actions, obs_shape, episode_limit, _episode_count,
           _episode_steps, _total_steps, _env_info, unity_env, np_random,
           registry, ret, hist >>

config == << observation_specs, n_agents, n_actions, obs_shape,
             episode_limit, _env_info, registry >>

sim == << decision_steps, terminal_steps >>

clock == << _episode_count, _episode_steps, _total_steps >>

process == << unity_env, np_random >>

---------------------------------------------------------------------------
(* Bounds of the exploration.                                              *)

MaxAgents == 2          \* agents in a decision set
MaxTerminal == 1        \* agents in a terminal set
ObsWidth == 2           \* width of the declared observation component
MaxTotalSteps == 3      \* step() calls explored by Spec
MaxEpisodes == 1        \* reset() calls explored by Spec
HorizonAgents == 1      \* SpecHorizon: agents in every decision set
HorizonTerminal == 1    \* SpecHorizon: agents in a terminal set
HorizonSteps == 1002    \* SpecHorizon: step() calls explored
HorizonEpisodes == 1    \* SpecHorizon: reset() calls explored
HorizonResetBy == 2     \* SpecHorizon: reset() explored before this many steps
LifeSteps == 1          \* SpecLifecycle: step() calls that tick
LifeEpisodes == 1       \* SpecLifecycle: reset() calls that reset
MaxRefusedSteps == 1    \* SpecLifecycle: step() calls on a closed connection
MaxCloses == 2          \* SpecLifecycle: close() calls explored
MaxSeeds == 2           \* SpecProcess: seed() calls explored

\* discrete_branches[0] of the behaviour ("Should be 6")
BranchSizes == {6}

\* agent_id arguments tried on get_obs_agent
AgentIdArgs == {-5, -1, 0, 4}

\* seeds passed to seed()
SeedArgs == {0, 7}

---------------------------------------------------------------------------
(* The simulation's reports.                                               *)

Vec(w, a) == [i \in 1..w |-> a + i]

Zeros(w) == [i \in 1..w |-> 0]

\* what one agent reports on a tick: its reward and one vector per declared
\* observation component
AgentReports(specs) ==
    { [reward |-> r[1], obs |-> [k \in 1..Len(specs) |-> Vec(specs[k], r[2])]]
        : r \in {<<2, 0>>, <<-1, 5>>} }

\* a DecisionSteps / TerminalSteps batch built from a sequence of reports
Batch(specs, s) ==
    [reward |-> [i \in 1..Len(s) |-> s[i].reward],
     obs    |-> [k \in 1..Len(specs) |-> [i \in 1..Len(s) |-> s[i].obs[k]]]]

\* what an agent whose episode ended reports with its last reward
TerminalReports(specs) ==
    { [reward |-> 3, obs |-> [k \in 1..Len(specs) |-> Vec(specs[k], 7)]] }

Batches(reports, specs, counts) ==
    UNION { { Batch(specs, s) : s \in [1..n -> reports] } : n \in counts }

\* the decision sets and the terminal sets the simulation may report
DecisionBatches(specs, counts) == Batches(AgentReports(specs), specs, counts)

TerminalBatches(specs, counts) == Batches(TerminalReports(specs), specs, counts)

\* len(decision_steps), len(terminal_steps)
BatchLen(b) == Len(b.reward)

RECURSIVE SumSeq(_)
\* np.sum
SumSeq(s) == IF Len(s) = 0 THEN 0 ELSE Head(s) + SumSeq(Tail(s))

RECURSIVE Joined(_)
\* the vectors of a list laid end to end
Joined(s) == IF Len(s) = 0 THEN << >> ELSE Head(s) \o Joined(Tail(s))

---------------------------------------------------------------------------
(* Results of a call: a value, or the exception it raised.                 *)

Ok(v) == [raised |-> FALSE, val |-> v]

Raise(e) == [raised |-> TRUE, exc |-> e]

\* np.concatenate of a list of vectors: ValueError on an empty list ("need
\* at least one array to concatenate")
Concat(s) == IF Len(s) = 0 THEN Raise("ValueError") ELSE Ok(Joined(s))

\* list[i] in Python: 0-based, negative i counts from the end, IndexError
\* outside -len .. len-1
PyIndex(list, i) ==
    IF 0 <= i /\ i < Len(list) THEN Ok(list[i + 1])
    ELSE IF i < 0 /\ -Len(list) <= i THEN Ok(list[Len(list) + i + 1])
    ELSE Raise("IndexError")

---------------------------------------------------------------------------
(* UnityWarehouseEnv: the queries.                                         *)

\* get_obs() with the zero rows counted over the (empty) decision set
get_obs_no_rows(ds) ==
    IF BatchLen(ds) > 0
    THEN LET first == PyIndex(ds.obs, 0)
         IN  IF first.raised THEN first ELSE Ok(first.val)
    ELSE Ok([i \in 1..BatchLen(ds) |-> Zeros(obs_shape)])

\* get_obs(), reading the decision set ds
get_obs(ds) ==
    IF BatchLen(ds) > 0
    THEN LET first == PyIndex(ds.obs, 0)
         IN  IF first.raised THEN first ELSE Ok(first.val)
    ELSE Ok([i \in 1..n_agents |-> Zeros(obs_shape)])

\* get_obs_agent(agent_id)
get_obs_agent(ds, agent_id) ==
    LET obs_list == get_obs(ds)
    IN  IF obs_list.raised THEN obs_list
        ELSE IF agent_id < Len(obs_list.val)
             THEN PyIndex(obs_list.val, agent_id)
             ELSE Ok(Zeros(obs_shape))

get_obs_size == obs_shape

\* get_state()
get_state(ds) ==
    LET obs == get_obs(ds)
    IN  IF obs.raised THEN obs ELSE Concat(obs.val)

get_state_size == obs_shape * n_agents

get_total_actions == n_actions

\* get_avail_actions() with one row per agent of the live decision set
get_avail_actions_live ==
    [i \in 1..BatchLen(decision_steps) |-> [j \in 1..n_actions |-> 1]]

\* get_avail_actions()
get_avail_actions == [i \in 1..n_agents |-> [j \in 1..n_actions |-> 1]]

\* get_avail_agent_actions(agent_id)
get_avail_agent_actions(agent_id) == [j \in 1..n_actions |-> 1]

\* get_stats(): the empty dict
get_stats == << >>

\* UnityWarehouseEnv.get_env_info()
get_env_info ==
    [state_shape   |-> get_state_size,
     obs_shape     |-> get_obs_size,
     n_actions     |-> get_total_actions,
     n_agents      |-> n_agents,
     episode_limit |-> episode_limit]

\* the facade recomputing the info from the live decision set
FacadeGetEnvInfoLive ==
    [get_env_info EXCEPT !.n_agents = BatchLen(decision_steps),
                         !.state_shape = obs_shape * BatchLen(decision_steps)]

\* UnityWarehouse.get_env_info(): the facade returns its cache
FacadeGetEnvInfo == _env_info

---------------------------------------------------------------------------
(* UnityWarehouseEnv.step: the pieces.                                     *)

\* the terminal rewards assigned (=) instead of added (+=)
TeamRewardOverwritten(ds, ts) ==
    LET r0 == IF BatchLen(ds) > 0 THEN SumSeq(ds.reward) ELSE 0
    IN  IF BatchLen(ts) > 0 THEN SumSeq(ts.reward) ELSE r0

\* the team reward of a tick
TeamReward(ds, ts) ==
    LET r0 == IF BatchLen(ds) > 0 THEN SumSeq(ds.reward) ELSE 0
    IN  IF BatchLen(ts) > 0 THEN r0 + SumSeq(ts.reward) ELSE r0

\* terminated only once more than one agent ended
TerminatedOffByOne(ts) == BatchLen(ts) > 1

\* terminated = len(terminal_steps) > 0
Terminated(ts) == BatchLen(ts) > 0

\* the time limit checked without "and not terminated"
TruncatedIgnoringTermination(steps, limit, terminated) == steps >= limit

\* the time limit checked with > instead of >=
TruncatedStrictlyPast(steps, limit, terminated) == steps > limit /\ ~terminated

\* truncated = self._episode_steps >= self.episode_limit and not terminated
Truncated(steps, limit, terminated) == steps >= limit /\ ~terminated

\* self._episode_steps += 1
StepEpisodeSteps(steps) == steps + 1

\* the increment of total_steps left out
StepTotalStepsStale(total) == total

\* the total counted only once an episode was started by reset()
StepTotalStepsInEpisode(total) == IF hist.reset = 0 THEN total ELSE total + 1

\* self._total_steps += 1
StepTotalSteps(total) == total + 1

\* reset() not zeroing the episode's steps
ResetKeepsEpisodeSteps(steps) == steps

\* self._episode_steps = 0
ResetEpisodeSteps(steps) == 0

\* self._episode_count += 1
ResetEpisodeCount(count) == count + 1

---------------------------------------------------------------------------
(* The registry entry and the facade's constructor.                        *)

\* kwargs.get(key, default)
KwGet(kwargs, key, default) ==
    IF key \in DOMAIN kwargs THEN kwargs[key] ELSE default

\* the env_args a run may hand to the registry entry (values written as
\* strings): each of the framework's two flags present or absent, the reward
\* common or general-sum
KwargsGiven ==
    { kw \in UNION { [keys -> {"True", "False", "sum"}]
                       : keys \in SUBSET {"common_reward", "reward_scalarisation"} } :
        /\ "common_reward" \in DOMAIN kw
             => kw["common_reward"] \in {"True", "False"}
        /\ "reward_scalarisation" \in DOMAIN kw
             => kw["reward_scalarisation"] = "sum" }

\* the env_args of a common-reward run
UsualKwargs ==
    { kw \in KwargsGiven :
        /\ DOMAIN kw = {"common_reward", "reward_scalarisation"}
        /\ kw["common_reward"] = "True" }

\* UnityWarehouse.__init__: the four arguments it hands to the adapter
FacadeAdapterArgs(kwargs) ==
    [env_path    |-> KwGet(kwargs, "env_path", "None"),
     no_graphics |-> KwGet(kwargs, "no_graphics", "False"),
     time_scale  |-> KwGet(kwargs, "time_scale", "20.0"),
     worker_id   |-> KwGet(kwargs, "worker_id", "0")]

\* unity_warehouse_fn(**kwargs): the facade is built from the kwargs as given
unity_warehouse_fn(kwargs) ==
    [outcome      |-> "constructed",
     facade_kwargs |-> kwargs,
     adapter_args |-> FacadeAdapterArgs(kwargs),
     connected    |-> TRUE]

---------------------------------------------------------------------------
(* Construction.                                                           *)

\* n_agents taken from the decision set with no fallback
InitNAgentsNoFallback(ds) == BatchLen(ds)

\* n_agents as __init__ sets it from the decision set of the forced tick
InitNAgents(ds) == IF BatchLen(ds) = 0 THEN 4 ELSE BatchLen(ds)

\* print("Warning: No agents found in first step, ...")
InitWarns(ds) == BatchLen(ds) = 0

\* obs_shape as __init__ sets it from the behaviour's observation specs
InitObsShape(specs) == IF Len(specs) > 0 THEN specs[1] ELSE 47

\* the state after UnityWarehouse(**kwargs): the adapter is constructed
\* (reset, one tick, the attributes) and the facade caches get_env_info()
InitOver(KwargChoices, SpecChoices, DCounts, TCounts) ==
    /\ \E kwargs \in KwargChoices :
          registry = [kwargs |-> kwargs, made |-> unity_warehouse_fn(kwargs)]
    /\ unity_env = "open"
    /\ np_random = << >>
    /\ observation_specs \in SpecChoices
    /\ decision_steps \in DecisionBatches(observation_specs, DCounts)
    /\ terminal_steps \in TerminalBatches(observation_specs, TCounts)
    /\ n_agents = InitNAgents(decision_steps)
    /\ n_actions \in BranchSizes
    /\ obs_shape = InitObsShape(observation_specs)
    /\ episode_limit = 1000
    /\ _episode_count = 0
    /\ _episode_steps = 0
    /\ _total_steps = 0
    /\ _env_info = get_env_info
    /\ ret = [op |-> "init"]
    /\ hist = [step |-> 0, reset |-> 0, since_reset |-> 0,
               env_info0 |-> FacadeGetEnvInfo,
               sim_resets |-> 1, ticks |-> 1,
               init_agents |-> BatchLen(decision_steps),
               warned |-> InitWarns(decision_steps),
               rows |-> << >>, step_calls |-> << >>,
               close |-> 0, releases |-> 0,
               own_seed |-> << >>]

---------------------------------------------------------------------------
(* The operations.                                                         *)

\* a call whose first statement reaches the closed connection:
\* UnityEnvironment raises, the adapter has done nothing yet
Refused(op) ==
    /\ ret' = [op |-> op, raised |-> TRUE, exc |-> "UnityEnvironmentException"]
    /\ UNCHANGED << config, sim, clock, process, hist >>

\* reset() forcing a tick after the reset, as __init__ does
ResetTicksForced(ticks) == ticks + 1

\* reset() does not tick the simulation
ResetTicks(ticks) == ticks

\* reset() on an open connection: the simulation is reset and reports new sets
ResetOpen(DCounts, TCounts) ==
    /\ \E ds \in DecisionBatches(observation_specs, DCounts),
          ts \in TerminalBatches(observation_specs, TCounts) :
          /\ decision_steps' = ds
          /\ terminal_steps' = ts
    /\ _episode_steps' = ResetEpisodeSteps(_episode_steps)
    /\ _episode_count' = ResetEpisodeCount(_episode_count)
    /\ LET obs == get_obs(decision_steps')
           state == get_state(decision_steps')
       IN  ret' = IF obs.raised
                  THEN [op |-> "reset", raised |-> TRUE, exc |-> obs.exc]
                  ELSE IF state.raised
                  THEN [op |-> "reset", raised |-> TRUE, exc |-> state.exc]
                  ELSE [op |-> "reset", raised |-> FALSE,
                        obs |-> obs.val, state |-> state.val]
    /\ hist' = [hist EXCEPT !.reset = @ + 1, !.since_reset = 0,
                            !.sim_resets = @ + 1, !.ticks = ResetTicks(@)]
    /\ UNCHANGED << config, process, _total_steps >>

\* reset()
ResetOver(DCounts, TCounts) ==
    IF unity_env = "open" THEN ResetOpen(DCounts, TCounts) ELSE Refused("reset")

\* what step() asks of unity_env, in the order of the code: the pending sets,
\* the submission, the tick, the read-back, and the read of get_obs()
StepCalls == <<"get_steps", "set_actions", "step", "get_steps", "get_steps">>

\* step() ticks the simulation once
StepTicks(ticks) == ticks + 1

\* the batch a caller that follows the facade's contract passes to step():
\* one action index per agent of n_agents
ActionBatch == [i \in 1..n_agents |-> (i - 1) % n_actions]

\* np.array(actions).reshape(-1, 1): one row per action
ActionRows(actions) == [i \in 1..Len(actions) |-> <<actions[i]>>]

\* step(actions) on an open connection: the submission, one tick, then the
\* read-back.  The action batch is handed to unity_env.set_actions and
\* decides nothing in the adapter itself; what the simulation reports after
\* the tick is the choice of ds and ts.
StepOpen(DCounts, TCounts) ==
    /\ \E ds \in DecisionBatches(observation_specs, DCounts),
          ts \in TerminalBatches(observation_specs, TCounts) :
          /\ decision_steps' = ds
          /\ terminal_steps' = ts
    /\ _episode_steps' = StepEpisodeSteps(_episode_steps)
    /\ _total_steps' = StepTotalSteps(_total_steps)
    /\ LET reward == TeamReward(decision_steps', terminal_steps')
           terminated == Terminated(terminal_steps')
           truncated == Truncated(_episode_steps', episode_limit, terminated)
           obs == get_obs(decision_steps')
       IN  ret' = IF obs.raised
                  THEN [op |-> "step", raised |-> TRUE, exc |-> obs.exc]
                  ELSE [op |-> "step", raised |-> FALSE,
                        obs |-> obs.val,
                        reward |-> reward,
                        terminated |-> terminated,
                        truncated |-> truncated,
                        info |-> [episode_steps |-> _episode_steps',
                                  total_steps |-> _total_steps']]
    /\ hist' = [hist EXCEPT !.step = @ + 1, !.since_reset = @ + 1,
                            !.rows = ActionRows(ActionBatch),
                            !.step_calls = StepCalls,
                            !.ticks = StepTicks(@)]
    /\ UNCHANGED << config, process, _episode_count >>

\* step(actions) on a closed connection: the pending sets are asked for and
\* the batch is submitted before unity_env.step() raises; no tick happens and
\* no attribute of the adapter is changed
StepClosed ==
    /\ ret' = [op |-> "step", raised |-> TRUE,
               exc |-> "UnityEnvironmentException"]
    /\ hist' = [hist EXCEPT !.step = @ + 1,
                            !.rows = ActionRows(ActionBatch),
                            !.step_calls = SubSeq(StepCalls, 1, 3)]
    /\ UNCHANGED << config, sim, clock, process >>

\* step(actions)
StepOver(DCounts, TCounts) ==
    IF unity_env = "open" THEN StepOpen(DCounts, TCounts) ELSE StepClosed

\* a query leaves everything but its return value alone
Query(r) ==
    /\ ret' = r
    /\ UNCHANGED << config, sim, clock, process, hist >>

Tagged(op, r) ==
    IF r.raised THEN [op |-> op, raised |-> TRUE, exc |-> r.exc]
    ELSE [op |-> op, raised |-> FALSE, val |-> r.val]

GetObs == Query(Tagged("get_obs", get_obs(decision_steps)))

GetObsAgent ==
    \E agent_id \in AgentIdArgs :
        LET r == get_obs_agent(decision_steps, agent_id)
        IN  Query(IF r.raised
                  THEN [op |-> "get_obs_agent", arg |-> agent_id,
                        raised |-> TRUE, exc |-> r.exc]
                  ELSE [op |-> "get_obs_agent", arg |-> agent_id,
                        raised |-> FALSE, val |-> r.val])

GetState == Query(Tagged("get_state", get_state(decision_steps)))

GetEnvInfo == Query(Tagged("get_env_info", Ok(FacadeGetEnvInfo)))

GetAvailActions == Query(Tagged("get_avail_actions", Ok(get_avail_actions)))

GetAvailAgentActions ==
    \E agent_id \in AgentIdArgs :
        Query([op |-> "get_avail_agent_actions", arg |-> agent_id,
               raised |-> FALSE, val |-> get_avail_agent_actions(agent_id)])

GetObsSize == Query(Tagged("get_obs_size", Ok(get_obs_size)))

GetStateSize == Query(Tagged("get_state_size", Ok(get_state_size)))

GetTotalActions == Query(Tagged("get_total_actions", Ok(get_total_actions)))

GetStats == Query(Tagged("get_stats", Ok(get_stats)))

\* render(): pass
Render == Query(Tagged("render", Ok("None")))

\* save_replay(): pass
SaveReplay == Query(Tagged("save_replay", Ok("None")))

\* what unity_env.close() may do: it releases an open connection; on a
\* connection already closed the adapter calls it all the same, and the
\* library either raises or goes through the release again
CloseOutcomes(conn) ==
    IF conn = "open" THEN {"released"} ELSE {"released", "raised"}

\* close(): self.unity_env.close(), whatever the state of the connection
Close ==
    /\ hist.close < MaxCloses
    /\ \E outcome \in CloseOutcomes(unity_env) :
          /\ ret' = IF outcome = "raised"
                    THEN [op |-> "close", raised |-> TRUE,
                          exc |-> "UnityEnvironmentException"]
                    ELSE [op |-> "close", raised |-> FALSE, val |-> "None"]
          /\ hist' = [hist EXCEPT !.close = @ + 1,
                                  !.releases = IF outcome = "released"
                                               THEN @ + 1 ELSE @]
    /\ unity_env' = "closed"
    /\ UNCHANGED << config, sim, clock, np_random >>

\* np.random.seed(seed): the generator of the whole process
NumpySeed(seed) == <<seed>>

\* seed(seed) on this instance
Seed ==
    /\ Len(hist.own_seed) < MaxSeeds
    /\ \E seed \in SeedArgs :
          /\ np_random' = NumpySeed(seed)
          /\ hist' = [hist EXCEPT !.own_seed = Append(@, seed)]
    /\ ret' = [op |-> "seed", raised |-> FALSE, val |-> "None"]
    /\ UNCHANGED << config, sim, clock, unity_env >>

\* seed(seed) on another UnityWarehouseEnv of the same process: its own
\* attributes are another object's, numpy's generator is this one's too
SeedElsewhere ==
    /\ \E seed \in SeedArgs : np_random' = NumpySeed(seed)
    /\ UNCHANGED << config, sim, clock, unity_env, ret, hist >>

Init == InitOver(UsualKwargs, {<< >>, <<ObsWidth>>}, 0..MaxAgents, 0..MaxTerminal)

Reset ==
    /\ _episode_count < MaxEpisodes
    /\ ResetOver(0..MaxAgents, 0..MaxTerminal)

Step ==
    /\ _total_steps < MaxTotalSteps
    /\ StepOver(0..MaxAgents, 0..MaxTerminal)

Next ==
    \/ Reset \/ Step
    \/ GetObs \/ GetObsAgent \/ GetState \/ GetEnvInfo \/ GetAvailActions

Spec == Init /\ [][Next]_vars

---------------------------------------------------------------------------
(* The same adapter driven up to the episode horizon: a simulation with a  *)
(* fixed population that declares one observation component, stepped past  *)
(* episode_limit, reset only near the start.                               *)

InitHorizon ==
    InitOver(UsualKwargs, {<<ObsWidth>>}, {HorizonAgents}, 0..HorizonTerminal)

ResetHorizon ==
    /\ _episode_count < HorizonEpisodes
    /\ _total_steps < HorizonResetBy
    /\ ResetOver({HorizonAgents}, 0..HorizonTerminal)

StepHorizon ==
    /\ _total_steps < HorizonSteps
    /\ StepOver({HorizonAgents}, 0..HorizonTerminal)

NextHorizon == ResetHorizon \/ StepHorizon

SpecHorizon == InitHorizon /\ [][NextHorizon]_vars

---------------------------------------------------------------------------
(* The surface of one instance, closing included, on short runs of a       *)
(* simulation that declares one observation component.                     *)

InitLife ==
    InitOver(UsualKwargs, {<<ObsWidth>>}, 0..MaxAgents, 0..MaxTerminal)

ResetLife ==
    /\ _episode_count < LifeEpisodes
    /\ ResetOver(0..MaxAgents, 0..MaxTerminal)

StepLife ==
    /\ IF unity_env = "open" THEN _total_steps < LifeSteps
       ELSE hist.step - _total_steps < MaxRefusedSteps
    /\ StepOver(0..MaxAgents, 0..MaxTerminal)

NextLifecycle ==
    \/ ResetLife \/ StepLife \/ Close
    \/ GetObs \/ GetEnvInfo
    \/ GetAvailActions \/ GetAvailAgentActions
    \/ GetObsSize \/ GetStateSize \/ GetTotalActions
    \/ GetStats \/ Render \/ SaveReplay

SpecLifecycle == InitLife /\ [][NextLifecycle]_vars

---------------------------------------------------------------------------
(* What belongs to the process: the registry call with any env_args, and   *)
(* numpy's generator, seeded from this instance or from another one.       *)

InitProcess ==
    InitOver(KwargsGiven, {<<ObsWidth>>}, 0..MaxAgents, 0..MaxTerminal)

NextProcess == Seed \/ SeedElsewhere \/ GetEnvInfo

SpecProcess == InitProcess /\ [][NextProcess]_vars

---------------------------------------------------------------------------
(* Properties.                                                             *)

\* the last operation was a step() that returned its tuple
StepReturned == ret.op = "step" /\ ~ret.raised

\* C1: the flags terminated and truncated returned by a step() are never both
\* true, whatever the step count and whatever sets the simulation reports.
C1_NeverTerminatedAndTruncated ==
    StepReturned => ~(ret.terminated /\ ret.truncated)

\* a step at or past the horizon on which an agent ended
C1_Witness ==
    /\ StepReturned
    /\ ret.info.episode_steps >= episode_limit
    /\ BatchLen(terminal_steps) > 0
    /\ ret.terminated

\* C2: at every tick get_obs() is a list of exactly n_agents observations,
\* each of length obs_shape, whatever number of agents the decision set holds.
C2_ObsListHasNAgentsRows ==
    LET obs == get_obs(decision_steps)
    IN  ~obs.raised =>
            /\ Len(obs.val) = n_agents
            /\ \A i \in 1..Len(obs.val) : Len(obs.val[i]) = obs_shape

\* C3: at every tick get_state() is the concatenation of the get_obs() vectors
\* in agent order, and its length is n_agents * obs_shape, which is
\* get_state_size() and the state_shape of get_env_info().
C3_StateIsConcatOfAdvertisedSize ==
    LET obs == get_obs(decision_steps)
        state == get_state(decision_steps)
    IN  ~obs.raised =>
            /\ ~state.raised
            /\ state.val = Joined(obs.val)
            /\ Len(state.val) = n_agents * obs_shape
            /\ Len(state.val) = get_state_size
            /\ Len(state.val) = FacadeGetEnvInfo.state_shape

\* C4: a step on which the terminal set is empty returns truncated = TRUE
\* exactly when it is the episode_limit-th or a later step since the reset
\* (or since construction), and then terminated = FALSE.
C4_TruncatedExactlyFromTheLimit ==
    (StepReturned /\ BatchLen(terminal_steps) = 0) =>
        /\ ret.truncated <=> hist.since_reset >= episode_limit
        /\ ~ret.terminated

\* the episode_limit-th step after a reset, with no agent ended
C4_Witness ==
    /\ StepReturned
    /\ hist.reset >= 1
    /\ hist.since_reset = episode_limit
    /\ BatchLen(terminal_steps) = 0
    /\ ret.truncated

\* C5: a step() returns terminated = TRUE if and only if the terminal set read
\* after its tick is non-empty, at any step count, and then truncated = FALSE.
C5_TerminatedIffTerminalSetNonEmpty ==
    StepReturned =>
        /\ ret.terminated <=> BatchLen(terminal_steps) > 0
        /\ BatchLen(terminal_steps) > 0 => ~ret.truncated

\* an agent ended on a step before the horizon
C5_Witness ==
    /\ StepReturned
    /\ hist.reset >= 1
    /\ ret.info.episode_steps < episode_limit
    /\ BatchLen(terminal_steps) > 0
    /\ ret.terminated
    /\ ~ret.truncated

\* C6: the reward of a step() is the sum of the rewards of the decision set
\* plus the sum of the rewards of the terminal set read after the tick (0 with
\* both empty), not scaled and not divided by the number of agents.
C6_RewardIsSumOfBothSets ==
    StepReturned =>
        ret.reward = SumSeq(decision_steps.reward) + SumSeq(terminal_steps.reward)

\* two agents still active with different rewards and one that ended
C6_Witness ==
    /\ StepReturned
    /\ decision_steps.reward = <<2, -1>>
    /\ terminal_steps.reward = <<3>>
    /\ ret.reward = 4

\* C7: episode_steps is the number of step() calls since the last reset() (or
\* since construction), the episode counter is the number of reset() calls,
\* and the info of a step carries that episode_steps.
C7_EpisodeStepsCountsStepsSinceReset ==
    /\ _episode_steps = hist.since_reset
    /\ _episode_count = hist.reset
    /\ StepReturned => ret.info.episode_steps = hist.since_reset

\* the second step after a reset that followed an earlier step
C7_Witness ==
    /\ StepReturned
    /\ hist.reset >= 1
    /\ hist.step > hist.since_reset
    /\ hist.since_reset = 2
    /\ ret.info.episode_steps = 2

\* C8: total_steps is the number of step() calls since construction, so it is
\* untouched by reset() and the queries and never below episode_steps.
C8_TotalStepsCountsAllSteps ==
    /\ _total_steps = hist.step
    /\ _total_steps >= _episode_steps
    /\ StepReturned => ret.info.total_steps = hist.step

\* a reset() after two steps: the episode's steps are 0, the total is kept
C8_Witness ==
    /\ ret.op = "reset"
    /\ hist.step = 2
    /\ _total_steps = 2
    /\ _episode_steps = 0

\* C9: the facade's get_env_info() returns the five values it returned right
\* after construction, with state_shape = n_agents * obs_shape, after any
\* calls and whatever the live number of agents.
C9_EnvInfoIsStable ==
    /\ FacadeGetEnvInfo = hist.env_info0
    /\ FacadeGetEnvInfo.state_shape
         = FacadeGetEnvInfo.n_agents * FacadeGetEnvInfo.obs_shape
    /\ DOMAIN FacadeGetEnvInfo
         = {"state_shape", "obs_shape", "n_actions", "n_agents", "episode_limit"}
    /\ ret.op = "get_env_info" => ret.val = hist.env_info0

\* get_env_info() after a reset and a step, the live agent count having changed
C9_Witness ==
    /\ ret.op = "get_env_info"
    /\ hist.reset >= 1
    /\ hist.step >= 1
    /\ BatchLen(decision_steps) # n_agents
    /\ BatchLen(decision_steps) > 0

\* C10: get_obs_agent(i) returns a zero vector of length obs_shape, raising
\* nothing, for every i out of range of the observation list (i >= its length,
\* or negative below the valid range), and the i-th entry for i in range.
C10_ObsAgentNeverRaises ==
    ret.op = "get_obs_agent" =>
        LET obs == get_obs(decision_steps)
            i == ret.arg
        IN  ~obs.raised =>
                /\ ~ret.raised
                /\ ret.val =
                     IF i >= Len(obs.val) \/ i < -Len(obs.val)
                     THEN Zeros(obs_shape)
                     ELSE IF i >= 0 THEN obs.val[i + 1]
                     ELSE obs.val[Len(obs.val) + i + 1]

\* C11: construction performs one reset and one forced tick and sets n_agents
\* to the size of the decision set read after that tick, or to 4 with a
\* warning when that set is empty; it succeeds either way and n_agents >= 1.
C11_NAgentsFromForcedTickOrDefault ==
    /\ hist.sim_resets - hist.reset = 1
    /\ hist.ticks - hist.step = 1
    /\ n_agents = IF hist.init_agents = 0 THEN 4 ELSE hist.init_agents
    /\ hist.warned <=> hist.init_agents = 0
    /\ registry.made.outcome = "constructed"
    /\ n_agents >= 1

\* no agent at the forced tick, then a step on which agents show up
C11_Witness ==
    /\ hist.init_agents = 0
    /\ hist.warned
    /\ n_agents = 4
    /\ hist.step >= 1
    /\ BatchLen(decision_steps) > 0

\* a list of n ones
AllOnes(row, n) == Len(row) = n /\ \A j \in 1..Len(row) : row[j] = 1

\* C12: at every tick get_avail_actions() is n_agents rows of n_actions ones
\* and get_avail_agent_actions(i) is n_actions ones for every i, whatever the
\* simulation reports.
C12_AvailActionsAllOnes ==
    /\ Len(get_avail_actions) = n_agents
    /\ \A i \in 1..Len(get_avail_actions) :
          AllOnes(get_avail_actions[i], n_actions)
    /\ \A a \in AgentIdArgs : AllOnes(get_avail_agent_actions(a), n_actions)
    /\ ret.op = "get_avail_actions" =>
          /\ ~ret.raised
          /\ Len(ret.val) = hist.env_info0.n_agents
          /\ \A i \in 1..Len(ret.val) :
                AllOnes(ret.val[i], hist.env_info0.n_actions)
    /\ ret.op = "get_avail_agent_actions" =>
          ~ret.raised /\ AllOnes(ret.val, hist.env_info0.n_actions)

\* the mask asked for while the live decision set differs from n_agents
C12_Witness ==
    /\ ret.op = "get_avail_actions"
    /\ hist.step >= 1
    /\ BatchLen(decision_steps) # n_agents
    /\ Len(ret.val) = n_agents

\* C13: close() is idempotent: a repeated close() raises nothing, leaves the
\* adapter closed, and the connection is released exactly once.
C13_CloseIsIdempotent ==
    /\ hist.releases <= 1
    /\ ret.op = "close" => ~ret.raised /\ unity_env = "closed"

\* C14: once close() was called, every operation other than close() fails
\* with an error instead of returning a result.
C14_NothingReturnsAfterClose ==
    (unity_env = "closed" /\ ret.op # "close") => ret.raised

\* C15: creating the environment through its registry entry fails with a
\* configuration error, before any connection, when the common-reward flag or
\* the scalarisation mode is absent or the common-reward flag is false; when
\* both are present and valid they do not reach the adapter.
C15_RegistryRejectsBadFlags ==
    LET kw == registry.kwargs
        made == registry.made
        valid == /\ "common_reward" \in DOMAIN kw
                 /\ "reward_scalarisation" \in DOMAIN kw
                 /\ kw["common_reward"] = "True"
    IN  IF valid
        THEN /\ made.outcome = "constructed"
             /\ "common_reward" \notin DOMAIN made.adapter_args
             /\ "reward_scalarisation" \notin DOMAIN made.adapter_args
        ELSE /\ made.outcome = "ConfigurationError"
             /\ ~made.connected

\* a step() call is made in this transition
StepCalled == hist'.step = hist.step + 1

\* no episode is running: reset() was never called, or the last operation was
\* a step that returned terminated or truncated
NotRunning ==
    \/ hist.reset = 0
    \/ StepReturned /\ (ret.terminated \/ ret.truncated)

\* C16 as claimed: a step() issued before the first reset(), or after a step
\* that returned terminated or truncated and before the next reset(), does not
\* advance the simulation and changes neither episode_steps nor total_steps.
C16_StepOnlyWhileRunning ==
    [][(StepCalled /\ NotRunning) =>
          /\ hist'.ticks = hist.ticks
          /\ _episode_steps' = _episode_steps
          /\ _total_steps' = _total_steps]_vars

\* C16 as amended: such a step() runs like any other: one tick, and
\* episode_steps and total_steps each increased by 1.
C16_StepRunsOutsideAnEpisode ==
    [][(StepCalled /\ NotRunning) =>
          /\ hist'.ticks = hist.ticks + 1
          /\ _episode_steps' = _episode_steps + 1
          /\ _total_steps' = _total_steps + 1]_vars

\* never reset, and stepped on after the step that reached the time limit
C16_Witness ==
    /\ StepReturned
    /\ hist.reset = 0
    /\ hist.since_reset > episode_limit
    /\ _total_steps = hist.step
    /\ hist.ticks = hist.step + 1

\* C17: the number of action rows a step() submits is the number of agents in
\* the pending decision set at the submission.
C17_OneRowPerPendingAgent ==
    [][StepCalled => Len(hist'.rows) = BatchLen(decision_steps)]_vars

\* C18: a step() submits, then ticks exactly once, then reads back the sets
\* its reward, flags and observations come from; no other operation ticks the
\* simulation or changes the step counters, but for reset() zeroing
\* episode_steps.
C18_StepTicksOnceOthersNever ==
    [][IF StepCalled
       THEN /\ hist'.step_calls
                 = <<"get_steps", "set_actions", "step", "get_steps", "get_steps">>
            /\ hist'.ticks = hist.ticks + 1
            /\ ~ret'.raised =>
                  /\ ret'.obs = get_obs(decision_steps').val
                  /\ ret'.reward = SumSeq(decision_steps'.reward)
                                     + SumSeq(terminal_steps'.reward)
                  /\ ret'.terminated = (BatchLen(terminal_steps') > 0)
       ELSE /\ hist'.ticks = hist.ticks
            /\ _total_steps' = _total_steps
            /\ IF hist'.reset = hist.reset + 1
               THEN _episode_steps' = 0
               ELSE _episode_steps' = _episode_steps /\ sim' = sim]_vars

\* a query and a reset made after a step, the tick count still one per step
C18_Witness ==
    /\ ret.op = "get_avail_actions"
    /\ hist.step >= 2
    /\ hist.reset >= 1
    /\ hist.ticks = hist.step + 1
    /\ hist.step_calls[3] = "step"

\* C19: seed(s) changes only the randomness source of the instance it is
\* called on: what this instance draws from is what its own seed() calls set.
C19_SeedIsLocal ==
    np_random = IF Len(hist.own_seed) = 0 THEN << >>
                ELSE <<hist.own_seed[Len(hist.own_seed)]>>

\* n_agents all-zero vectors of length obs_shape
ZeroObsList(l) ==
    /\ Len(l) = n_agents
    /\ \A i \in 1..Len(l) :
          Len(l[i]) = obs_shape /\ \A k \in 1..Len(l[i]) : l[i][k] = 0

\* C20: when the decision set is empty, step(), reset() and get_obs() return
\* n_agents all-zero vectors of length obs_shape; the observations of the
\* terminal set are not returned.
C20_ZerosWhenNoDecisionAgents ==
    BatchLen(decision_steps) = 0 =>
        /\ ~get_obs(decision_steps).raised
        /\ ZeroObsList(get_obs(decision_steps).val)
        /\ ret.op \in {"step", "reset"} => ~ret.raised /\ ZeroObsList(ret.obs)
        /\ ret.op = "get_obs" => ~ret.raised /\ ZeroObsList(ret.val)

\* every agent ended on a tick: the terminal set carries observations
C20_Witness ==
    /\ StepReturned
    /\ BatchLen(decision_steps) = 0
    /\ BatchLen(terminal_steps) > 0
    /\ Len(observation_specs) > 0
    /\ terminal_steps.obs[1][1] # Zeros(obs_shape)
    /\ ret.terminated

=============================================================================
